---- MODULE Spec2Model ----
(***************************************************************************)
(* Model of the delay engine of src/src/lib.rs (Myplug::process).          *)
(*                                                                         *)
(* The history buffer self.prevsample (vec![0.0; 400000]) is represented   *)
(* by its nonzero entries: a function whose domain is the set of slots     *)
(* holding a value other than 0.0.  Sample values are small integers, on   *)
(* which the f32 products and sums of the mode mixing are exact.           *)
(*                                                                         *)
(* usize arithmetic: a usize that wrapped below zero in a build without    *)
(* overflow checks is 2^64 + c for a small negative c; the model keeps c.  *)
(* With overflow checks the same subtraction panics.  The model takes      *)
(* either outcome.                                                         *)
(***************************************************************************)
EXTENDS Integers, Sequences, FiniteSets, TLC

VARIABLES
    prevsample,   \* self.prevsample, the history buffer (nonzero slots)
    iterdelay,    \* self.iterdelay, the write cursor
    iterrepeats,  \* self.iterrepeats, the read cursor
    prev,         \* self.prev, the last observed time value
    gain,         \* let gain, polled once per frame
    mode,         \* params.mode as polled by the last sample
    sample,       \* *sample, the in-place sample after the last step
    ch,           \* channels of the current frame already processed
    n,            \* samples processed to completion since construction
    status,       \* "Normal", "panic_overflow" or "panic_bounds"
    underflow     \* the last sample subtracted more than the read cursor held

vars == <<prevsample, iterdelay, iterrepeats, prev, gain, mode, sample,
          ch, n, status, underflow>>

----------------------------------------------------------------------------
(* Program constants *)

Cap == 400000
WrapAt == 399999
Half == 199999
InitRead == 399999
InitPrev == 399999
NumChannels == 2
DefaultTime == 1
TimeDenominator == 1000
MantissaBits == 24

(* Bounds of the model *)

MaxSamples == 3
ImpulseLen == 40

Gains == {1, 2}
Inputs == {0, 1}
Times == {1, 500, 1000}
Delays == {1, 1000}
Modes == 0..8

----------------------------------------------------------------------------
(* f32 arithmetic of the cursor rescale *)

RECURSIVE Pow2(_)
Pow2(k) == IF k = 0 THEN 1 ELSE 2 * Pow2(k - 1)

RECURSIVE Log2Floor(_)
Log2Floor(p) == IF p < 2 THEN 0 ELSE 1 + Log2Floor(p \div 2)

\* p as an f32: round to nearest, ties to even, on a 24-bit significand.
RoundF32(p) ==
    IF p < Pow2(MantissaBits) THEN p
    ELSE LET u == Pow2(Log2Floor(p) - (MantissaBits - 1))
             q == p \div u
             m == p % u
         IN  IF 2 * m > u \/ (2 * m = u /\ q % 2 = 1)
             THEN (q + 1) * u ELSE q * u

\* (p / 1000.0) as usize for an f32 p holding an integer: the quotient is
\* rounded to an f32 and then truncated.  The rounded quotient reaches the
\* next integer exactly when it lies within half an ulp of it.
DivTruncF32(p) ==
    LET q == p \div TimeDenominator
        m == p % TimeDenominator
        j == MantissaBits - Log2Floor(q)
    IN  IF m = 0 \/ q = 0 THEN q
        ELSE IF j < 10 /\ (TimeDenominator - m) * Pow2(j) < TimeDenominator
             THEN q + 1 ELSE q

\* the rescale without its division by 1000.0
ScaleNoDivide(c, v) == RoundF32(c * v)

\* (c as f32 * v as f32 / 1000.0) as usize
ScaleF32(c, v) == DivTruncF32(RoundF32(c * v))

----------------------------------------------------------------------------
(* The history buffer *)

Read(b, i) == IF i \in DOMAIN b THEN b[i] ELSE 0

\* the sample stored after the write cursor was incremented
WriteAfterIncrement(b, i, v) ==
    IF v = 0 THEN [k \in (DOMAIN b) \ {i + 1} |-> b[k]]
    ELSE [k \in (DOMAIN b) \cup {i + 1} |-> IF k = i + 1 THEN v ELSE b[k]]

Write(b, i, v) ==
    IF v = 0 THEN [k \in (DOMAIN b) \ {i} |-> b[k]]
    ELSE [k \in (DOMAIN b) \cup {i} |-> IF k = i THEN v ELSE b[k]]

ZeroBuffer == [k \in {} |-> 0]

\* a tap that is read after the step has stored s at slot w
TapAfterWrite(b, i, w, s) == Read(Write(b, w, s), i)

\* a tap at index i, read before the step stores s at slot w
Tap(b, i, w, s) == Read(b, i)

InBounds(i) == i >= 0 /\ i < Cap

----------------------------------------------------------------------------
(* Mode logic *)

\* the gain added to the sample instead of multiplied
GainedAdded(x, g) == x + g

\* *sample *= gain
Gained(x, g) == x * g

\* mode 3 adding the tap to the sample instead of replacing it
MixMode3Adds(m, s, p1, p2) ==
    CASE m \in {1, 2, 3, 6} -> s + p1
      [] m = 4 -> s * p1
      [] m \in {5, 7} -> s + (p1 + p2)
      [] OTHER -> s

\* the default arm mixing the tap in as mode 1 does
MixOtherAdds(m, s, p1, p2) ==
    CASE m = 3 -> p1
      [] m = 4 -> s * p1
      [] m \in {5, 7} -> s + (p1 + p2)
      [] OTHER -> s + p1

Mix(m, s, p1, p2) ==
    CASE m = 1 -> s + p1
      [] m = 2 -> s + p1
      [] m = 3 -> p1
      [] m = 4 -> s * p1
      [] m = 5 -> s + (p1 + p2)
      [] m = 6 -> s + p1
      [] m = 7 -> s + (p1 + p2)
      [] OTHER -> s

\* the '> 199999' rule testing % 7 before % 5
Rule75(w) ==
    IF w > Half
    THEN IF w % 7 = 0 THEN <<2>>
         ELSE IF w % 5 = 0 THEN <<-1>> ELSE <<>>
    ELSE <<1>>

\* the '> 199999' rule without the extra increment of the lower half
Rule57NoExtra(w) ==
    IF w > Half
    THEN IF w % 5 = 0 THEN <<-1>>
         ELSE IF w % 7 = 0 THEN <<2>> ELSE <<>>
    ELSE <<>>

\* the '> 199999' rule with two independent tests instead of else-if
Rule57Both(w) ==
    IF w > Half
    THEN (IF w % 5 = 0 THEN <<-1>> ELSE <<>>)
         \o (IF w % 7 = 0 THEN <<2>> ELSE <<>>)
    ELSE <<1>>

\* the '> 199999' rule of modes 2 and 7, on the incremented write cursor
Rule57(w) ==
    IF w > Half
    THEN IF w % 5 = 0 THEN <<-1>>
         ELSE IF w % 7 = 0 THEN <<2>> ELSE <<>>
    ELSE <<1>>

\* the '% 3' rule with the branches of the parity test exchanged
Rule3Swapped(w) ==
    IF w % 3 = 0
    THEN IF w % 2 = 0 THEN <<3>> ELSE <<-3>>
    ELSE <<>>

\* the '% 3' rule of modes 6 and 7, on the incremented write cursor
Rule3(w) ==
    IF w % 3 = 0
    THEN IF w % 2 = 0 THEN <<-3>> ELSE <<3>>
    ELSE <<>>

\* the rules testing the write cursor as it was before its increment
DeltasOnOld(m, w) ==
    CASE m = 2 -> Rule57(w - 1)
      [] m = 6 -> Rule3(w - 1)
      [] m = 7 -> Rule3(w - 1) \o Rule57(w - 1)
      [] OTHER -> <<>>

\* mode 7 without the '% 3' rule
DeltasMode7As2(m, w) ==
    CASE m = 2 -> Rule57(w)
      [] m = 6 -> Rule3(w)
      [] m = 7 -> Rule57(w)
      [] OTHER -> <<>>

\* the updates of the read cursor that follow its baseline increment
Deltas(m, w) ==
    CASE m = 2 -> Rule57(w)
      [] m = 6 -> Rule3(w)
      [] m = 7 -> Rule3(w) \o Rule57(w)
      [] OTHER -> <<>>

RECURSIVE ApplyDeltas(_, _)
ApplyDeltas(r, ds) ==
    IF ds = <<>> THEN r ELSE ApplyDeltas(r + Head(ds), Tail(ds))

\* some subtraction of ds takes more than the cursor holds
RECURSIVE Underflows(_, _)
Underflows(r, ds) ==
    IF ds = <<>> THEN FALSE
    ELSE (r >= 0 /\ r + Head(ds) < 0) \/ Underflows(r + Head(ds), Tail(ds))

\* the cursor as the first underflowing subtraction finds it
RECURSIVE BeforeUnderflow(_, _)
BeforeUnderflow(r, ds) ==
    IF ds = <<>> \/ r + Head(ds) < 0 THEN r
    ELSE BeforeUnderflow(r + Head(ds), Tail(ds))

\* a cursor that is never reset
WrapNever(c) == c

\* a cursor reset at the capacity 400000 instead of 399999
WrapAtCap(c) == IF c < 0 \/ c >= Cap THEN 0 ELSE c

\* a cursor reset only above 399999
WrapAbove(c) == IF c < 0 \/ c > WrapAt THEN 0 ELSE c

\* if c >= 399999 { c = 0 }; c < 0 stands for the usize 2^64 + c
Wrap(c) == IF c < 0 \/ c >= WrapAt THEN 0 ELSE c

----------------------------------------------------------------------------
(* States *)

\* Myplug::default()
Constructed ==
    /\ prevsample = ZeroBuffer
    /\ iterdelay = 0
    /\ iterrepeats = InitRead
    /\ prev = InitPrev
    /\ gain = 1
    /\ mode = 1
    /\ sample = 0
    /\ ch = NumChannels
    /\ n = 0
    /\ status = "Normal"
    /\ underflow = FALSE

\* The read cursor after k samples of mode 1 at the constant time value t:
\* rescaled once by the first frame, then advanced by one per sample and
\* reset to 0 whenever it reaches 399999.
ReadAfter(k, t) ==
    LET r0 == ScaleF32(InitRead, t)
        k0 == IF r0 < WrapAt THEN WrapAt - r0 ELSE 1
    IN  IF k < k0 THEN r0 + k ELSE (k - k0) % WrapAt

\* The state k samples (whole frames) after construction when the input was
\* silent, the mode 1, the gain 1.0 and the time value constantly t.
AfterSilence(k, t) ==
    /\ prevsample = ZeroBuffer
    /\ iterdelay = k % WrapAt
    /\ iterrepeats = ReadAfter(k, t)
    /\ prev = t
    /\ gain = 1
    /\ mode = 1
    /\ sample = 0
    /\ ch = NumChannels
    /\ n = k
    /\ status = "Normal"
    /\ underflow = FALSE

\* The runs of silence after which the model picks the program up.
Starts ==
    { [at |-> 10,     time |-> 1000],
      [at |-> 133822, time |-> 1],
      [at |-> 199998, time |-> 1000],
      [at |-> 200004, time |-> 1000],
      [at |-> 200010, time |-> 1000],
      [at |-> 200024, time |-> 1000],
      [at |-> 399998, time |-> 1000] }

Init ==
    \/ Constructed
    \/ \E s \in Starts : AfterSilence(s.at, s.time)

----------------------------------------------------------------------------
(* Steps of process *)

\* the gain poll and the time check done inside the channel loop as well
FrameStartAnyChannel(g, t) ==
    /\ status = "Normal"
    /\ gain' = g
    /\ IF prev # t
       THEN /\ iterrepeats' = ScaleF32(iterrepeats, t)
            /\ prev' = t
       ELSE UNCHANGED <<iterrepeats, prev>>
    /\ ch' = IF ch = NumChannels THEN 0 ELSE ch
    /\ UNCHANGED <<prevsample, iterdelay, mode, sample, n, status, underflow>>

\* one iteration of the outer loop up to the channel loop
FrameStart(g, t) ==
    /\ status = "Normal"
    /\ ch = NumChannels
    /\ gain' = g
    /\ IF prev # t
       THEN /\ iterrepeats' = ScaleF32(iterrepeats, t)
            /\ prev' = t
       ELSE UNCHANGED <<iterrepeats, prev>>
    /\ ch' = 0
    /\ UNCHANGED <<prevsample, iterdelay, mode, sample, n, status, underflow>>

\* one iteration of the channel loop
Sample(x, d, m) ==
    /\ status = "Normal"
    /\ ch < NumChannels
    /\ LET i2 == ScaleF32(iterrepeats, d)
           s  == Gained(x, gain)
           w1 == iterdelay + 1
           r1 == iterrepeats + 1
           ds == Deltas(m, w1)
       IN  IF ~(InBounds(iterrepeats) /\ InBounds(i2))
           THEN /\ status' = "panic_bounds"
                /\ UNCHANGED <<prevsample, iterdelay, iterrepeats, prev, gain,
                               mode, sample, ch, n, underflow>>
           ELSE IF ~InBounds(iterdelay)
           THEN /\ status' = "panic_bounds"
                /\ sample' = s
                /\ UNCHANGED <<prevsample, iterdelay, iterrepeats, prev, gain,
                               mode, ch, n, underflow>>
           ELSE LET p1 == Tap(prevsample, iterrepeats, iterdelay, s)
                    p2 == Tap(prevsample, i2, iterdelay, s)
                IN  /\ prevsample' = Write(prevsample, iterdelay, s)
                    /\ sample' = Mix(m, s, p1, p2)
                    /\ mode' = m
                    /\ underflow' = Underflows(r1, ds)
                    /\ UNCHANGED <<prev, gain>>
                    /\ \/ /\ iterdelay' = Wrap(w1)
                          /\ iterrepeats' = Wrap(ApplyDeltas(r1, ds))
                          /\ status' = "Normal"
                          /\ ch' = ch + 1
                          /\ n' = n + 1
                       \/ /\ Underflows(r1, ds)
                          /\ iterdelay' = w1
                          /\ iterrepeats' = BeforeUnderflow(r1, ds)
                          /\ status' = "panic_overflow"
                          /\ UNCHANGED <<ch, n>>

StartCounts == {0} \cup {s.at : s \in Starts}

\* at most MaxSamples samples are followed from each starting state
Bounded == \E k \in StartCounts : n >= k /\ n < k + MaxSamples

Next ==
    /\ Bounded
    /\ \/ \E g \in Gains, t \in Times : FrameStart(g, t)
       \/ \E x \in Inputs, d \in Delays, m \in Modes : Sample(x, d, m)

Spec == Init /\ [][Next]_vars

\* Silent input at gain 1.0, any mode, delay and time.
NextSilence ==
    /\ Bounded
    /\ \/ \E t \in Times : FrameStart(1, t)
       \/ \E d \in Delays, m \in Modes : Sample(0, d, m)

SpecSilence == Init /\ [][NextSilence]_vars

\* A unit impulse followed by silence, from construction, in mode 1 at gain
\* 1.0, the time value chosen by the first frame and held.
NextImpulse ==
    /\ n < ImpulseLen
    /\ \/ \E t \in Times : (n = 0 \/ t = prev) /\ FrameStart(1, t)
       \/ \E d \in Delays : Sample(IF n = 0 THEN 1 ELSE 0, d, 1)

SpecImpulse == Constructed /\ [][NextImpulse]_vars

----------------------------------------------------------------------------
(* Properties *)

\* a step of the channel loop that ran to completion
SampleDone == ch < NumChannels /\ ch' = ch + 1

\* C1: after every processed sample the write cursor iterdelay and the read
\* cursor iterrepeats are both within [0, 399999].
C1_CursorBounds ==
    /\ iterdelay >= 0 /\ iterdelay <= WrapAt
    /\ iterrepeats >= 0 /\ iterrepeats <= WrapAt

\* C1 witness: the sample that took the read cursor to 399999 and reset it.
C1_Witness ==
    status = "Normal" /\ ch > 0 /\ n = 400000
    /\ iterrepeats = 0 /\ iterdelay = 1

\* C2: no subtraction of the mode logic (1 in modes 2 and 7, 3 in modes 6
\* and 7) takes more than the read cursor holds after its baseline +1.
C2_NoUnderflow == underflow = FALSE

\* C3: every buffer access of process uses an index in [0, 399999]: the
\* primary tap iterrepeats (also right after a rescale), the secondary tap
\* trunc(iterrepeats * delay / 1000) and the write index iterdelay.
C3_AccessesInBounds ==
    /\ status # "panic_bounds"
    /\ (status = "Normal" /\ ch < NumChannels) =>
          /\ InBounds(iterrepeats)
          /\ InBounds(iterdelay)
          /\ \A d \in Delays : InBounds(ScaleF32(iterrepeats, d))

\* C3 witness: the first frame rescaled the read cursor to the top slot and
\* the first sample is about to read it.
C3_Witness ==
    status = "Normal" /\ ch = 0 /\ n = 0 /\ iterrepeats = Cap - 1

\* C4 as stated: in mode 2 with the write cursor w > 199999 before the step,
\* the read cursor moves by +1-1 if w % 5 = 0, by +1+2 if w % 7 = 0 and
\* w % 5 # 0.
C4_Original ==
    [][(SampleDone /\ mode' = 2 /\ iterdelay > Half) =>
          /\ (iterdelay % 5 = 0) => iterrepeats' = Wrap(iterrepeats + 1 - 1)
          /\ (iterdelay % 7 = 0 /\ iterdelay % 5 # 0) =>
                iterrepeats' = Wrap(iterrepeats + 1 + 2)]_vars

\* C4 amended: in mode 2 with the incremented write cursor w + 1 > 199999,
\* the read cursor moves by +1-1 if (w + 1) % 5 = 0, also when w + 1 is
\* divisible by 7, and by +1+2 if (w + 1) % 7 = 0 and (w + 1) % 5 # 0.
C4_TieBreak ==
    [][(SampleDone /\ mode' = 2 /\ iterdelay + 1 > Half) =>
          /\ ((iterdelay + 1) % 5 = 0) =>
                iterrepeats' = Wrap(iterrepeats + 1 - 1)
          /\ ((iterdelay + 1) % 7 = 0 /\ (iterdelay + 1) % 5 # 0) =>
                iterrepeats' = Wrap(iterrepeats + 1 + 2)]_vars

\* C4 witness: a mode 2 sample tested 200025, divisible by 5 and by 7, and
\* left the read cursor where it was.
C4_Witness ==
    status = "Normal" /\ ch > 0 /\ mode = 2 /\ n = 200025
    /\ iterdelay = 200025 /\ iterrepeats = 200023

\* C5: with mode 1, gain 1.0 and a constant time value, the copy of a unit
\* impulse fed as the first sample appears in the output 399999 samples
\* after the impulse.
C5_EchoAtSeparation ==
    (status = "Normal" /\ n >= 2 /\ sample # 0) => n - 1 = InitRead

\* C6: a frame whose time value t differs from prev sets the read cursor to
\* trunc(iterrepeats * t / 1000) and prev to t; a frame whose time value
\* equals prev leaves the read cursor alone.
C6_Rescale ==
    [][(ch = NumChannels /\ ch' = 0) =>
          \E t \in Times :
             /\ prev' = t
             /\ iterrepeats' = IF t # prev
                               THEN (iterrepeats * t) \div TimeDenominator
                               ELSE iterrepeats]_vars

\* C7: a sample processed in mode 3 outputs the buffer content found at the
\* read cursor at the start of the step, whatever the input and the gain;
\* the gained input is only stored at the write cursor.
C7_Mode3Replace ==
    [][(SampleDone /\ mode' = 3) =>
          /\ sample' = Read(prevsample, iterrepeats)
          /\ \E x \in Inputs :
                prevsample' = Write(prevsample, iterdelay, Gained(x, gain))]_vars

\* C7 witness: a mode 3 sample put out a nonzero tap while the gained input
\* it stored was a different value.
C7_Witness ==
    status = "Normal" /\ ch > 0 /\ mode = 3 /\ sample # 0
    /\ iterdelay > 0 /\ Read(prevsample, iterdelay - 1) # sample

\* C8: for a mode outside 1..7 the output is the input times the gain,
\* whatever the buffer holds and wherever the cursors are.
C8_PassThrough ==
    [][(SampleDone /\ mode' \notin 1..7) =>
          \E x \in Inputs :
             /\ sample' = Gained(x, gain)
             /\ prevsample' = Write(prevsample, iterdelay, Gained(x, gain))]_vars

\* C8 witness: a sample in mode 0 or 8 had a nonzero input and read a
\* nonzero tap.
C8_Witness ==
    status = "Normal" /\ ch > 0 /\ mode \in {0, 8} /\ sample # 0
    /\ iterrepeats > 0 /\ Read(prevsample, iterrepeats - 1) # 0

\* C9: from the all-zero buffer, any number of all-zero input samples at
\* gain 1.0, in any mode and with any delay and time, leave every slot 0.
C9_SilentHistory == \A i \in DOMAIN prevsample : prevsample[i] = 0

\* C9 witness: silent samples were processed in a mode that mixes both taps.
C9_Witness ==
    status = "Normal" /\ ch > 0 /\ n = 3 /\ mode = 7

\* C10: every processed sample takes the write cursor to its previous value
\* plus 1, or to 0 when that sum is 399999; after n processed samples the
\* write cursor is n mod 399999.
C10_WriteAdvance ==
    /\ [](status = "Normal" => iterdelay = n % WrapAt)
    /\ [][SampleDone =>
            iterdelay' = IF iterdelay + 1 = WrapAt THEN 0
                         ELSE iterdelay + 1]_vars

\* C10 witness: the sample that wrote slot 399998 reset the write cursor.
C10_Witness ==
    status = "Normal" /\ ch > 0 /\ n = WrapAt /\ iterdelay = 0

----------------------------------------------------------------------------
(* The change of the read cursor on top of its baseline increment, as a    *)
(* number, for the value v the mode logic tests.                           *)

Shift57(v) ==
    IF v > Half
    THEN IF v % 5 = 0 THEN -1 ELSE IF v % 7 = 0 THEN 2 ELSE 0
    ELSE 1

Shift3(v) ==
    IF v % 3 = 0 THEN (IF v % 2 = 0 THEN -3 ELSE 3) ELSE 0

Shift(m, v) ==
    CASE m = 2 -> Shift57(v)
      [] m = 6 -> Shift3(v)
      [] m = 7 -> Shift3(v) + Shift57(v)
      [] OTHER -> 0

\* a step of the outer loop up to the channel loop
FrameDone == ch = NumChannels /\ ch' = 0

\* C11 as stated: in mode 2 with the write cursor <= 199999 the read cursor
\* advances by the baseline +1 only, as in mode 1.
C11_Original ==
    [][(SampleDone /\ mode' = 2 /\ iterdelay <= Half) =>
          iterrepeats' = Wrap(iterrepeats + 1)]_vars

\* C11 amended: in mode 2 with the incremented write cursor <= 199999 the
\* read cursor advances by 2, the baseline +1 and one more.
C11_LowerHalf ==
    [][(SampleDone /\ mode' = 2 /\ iterdelay + 1 <= Half) =>
          iterrepeats' = Wrap(iterrepeats + 2)]_vars

\* C11 witness: a mode 2 sample tested 199999 and moved the read cursor
\* from 199997 to 199999.
C11_Witness ==
    status = "Normal" /\ ch > 0 /\ mode = 2 /\ n = Half
    /\ iterdelay = Half /\ iterrepeats = Half

\* C12: in modes 2 and 7 the '> 199999' rule adds exactly one of -1, +2 or
\* 0 to the read cursor, % 5 tested before % 7: a tested value above 199999
\* divisible by 5 and by 7 gets the -1 only.
C12_CheckOrder ==
    [][(SampleDone /\ mode' \in {2, 7} /\ iterdelay + 1 > Half) =>
          LET v == iterdelay + 1
              c == IF v % 5 = 0 THEN -1 ELSE IF v % 7 = 0 THEN 2 ELSE 0
              b == IF mode' = 7 THEN Shift3(v) ELSE 0
          IN  iterrepeats' = Wrap(iterrepeats + 1 + b + c)]_vars

\* C12 witness: a mode 7 sample tested 200025, divisible by 3, 5 and 7, and
\* moved the read cursor by +1 +3 -1.
C12_Witness ==
    status = "Normal" /\ ch > 0 /\ mode = 7 /\ n = 200025
    /\ iterdelay = 200025 /\ iterrepeats = 200026

\* C13: the rules of modes 2, 6 and 7 test w + 1, where w is the slot this
\* step wrote its gained sample to; the write cursor is reset to 0 only
\* after the mode logic.
C13_TestedValue ==
    [][(SampleDone /\ mode' \in {2, 6, 7}) =>
          /\ \E x \in Inputs : Read(prevsample', iterdelay) = Gained(x, gain)
          /\ iterrepeats' =
                Wrap(iterrepeats + 1 + Shift(mode', iterdelay + 1))
          /\ iterdelay' = IF iterdelay + 1 >= WrapAt THEN 0
                          ELSE iterdelay + 1]_vars

\* C13 witness: a mode 2 sample wrote slot 399998 and tested 399999, not 0:
\* the read cursor got the baseline +1 only while the write cursor was reset.
C13_Witness ==
    status = "Normal" /\ ch > 0 /\ mode = 2 /\ n = WrapAt
    /\ iterdelay = 0 /\ iterrepeats = WrapAt - 1

\* C14: a processed sample sets the slot at the write cursor's value at the
\* start of the step to input * gain, not to the mixed output, and leaves
\* every other slot as it was.
C14_GainedInputOnly ==
    [][SampleDone =>
          \E x \in Inputs, d \in Delays :
             /\ Read(prevsample', iterdelay) = Gained(x, gain)
             /\ \A i \in ((DOMAIN prevsample) \cup (DOMAIN prevsample'))
                           \ {iterdelay} :
                   Read(prevsample', i) = Read(prevsample, i)
             /\ sample' = Mix(mode', Gained(x, gain),
                              Read(prevsample, iterrepeats),
                              Read(prevsample, ScaleF32(iterrepeats, d)))]_vars

\* C14 witness: a mode 1 sample put out twice the value it stored.
C14_Witness ==
    status = "Normal" /\ ch > 0 /\ mode = 1 /\ iterdelay > 0
    /\ Read(prevsample, iterdelay - 1) # 0
    /\ sample = 2 * Read(prevsample, iterdelay - 1)

\* C15: a mode 7 step moves the read cursor by the baseline +1, the mode 6
\* amount and the mode 2 amount for the same tested value, and puts out
\* sample + prevsample + prevsample2.
C15_Mode7Sum ==
    [][(SampleDone /\ mode' = 7) =>
          /\ iterrepeats' =
                Wrap(iterrepeats + 1 + Shift(6, iterdelay + 1)
                                     + Shift(2, iterdelay + 1))
          /\ \E x \in Inputs, d \in Delays :
                /\ Read(prevsample', iterdelay) = Gained(x, gain)
                /\ sample' = Gained(x, gain) + Read(prevsample, iterrepeats)
                       + Read(prevsample, ScaleF32(iterrepeats, d))]_vars

\* C15 witness: a mode 7 sample tested 12 and moved the read cursor by
\* +1 -3 +1, with both taps and the input nonzero.
C15_Witness ==
    status = "Normal" /\ ch > 0 /\ mode = 7 /\ n = 12
    /\ iterrepeats = 9 /\ sample = 3 * gain

\* C16: both taps are the buffer contents from before this step's write, at
\* the read cursor and at trunc(read cursor * delay / 1000), also when a tap
\* index equals the write cursor.
C16_TapsBeforeWrite ==
    [][SampleDone =>
          \E x \in Inputs, d \in Delays :
             LET s  == Gained(x, gain)
                 p1 == Read(prevsample, iterrepeats)
                 p2 == Read(prevsample, ScaleF32(iterrepeats, d))
             IN  /\ Read(prevsample', iterdelay) = s
                 /\ sample' = CASE mode' \in {1, 2, 6} -> s + p1
                                [] mode' = 3 -> p1
                                [] mode' = 4 -> s * p1
                                [] mode' \in {5, 7} -> s + p1 + p2
                                [] OTHER -> s]_vars

\* C16 witness: a mode 1 sample whose read cursor equalled the write cursor
\* put out its gained input alone, the slot's old content being 0.
C16_Witness ==
    status = "Normal" /\ ch > 0 /\ mode = 1 /\ n = 12
    /\ iterdelay = iterrepeats /\ sample # 0
    /\ sample = Read(prevsample, iterdelay - 1)

\* C17: with the time value held at its creation value the first frame does
\* not rescale the read cursor, and the first tap is read at 399999.
C17_ConstantTimeNoRescale ==
    (status = "Normal" /\ n = 0 /\ ch = 0 /\ prev = DefaultTime) =>
        iterrepeats = InitRead

\* C18: the channels of a frame share the buffer and the cursors: a frame
\* advances the write cursor by the number of channels, the gain and the
\* time check are taken once before the first channel, and the second
\* channel reads the buffer as the first left it.
C18_SharedState ==
    /\ []((status = "Normal" /\ ch = NumChannels) =>
             (n % NumChannels = 0 /\ iterdelay = n % WrapAt))
    /\ [][(ch < NumChannels) => (gain' = gain /\ prev' = prev)]_vars
    /\ [][(SampleDone /\ ch = 1 /\ mode' = 3) =>
             sample' = Read(prevsample, iterrepeats)]_vars

\* C18 witness: the second channel, in mode 3, put out the value the first
\* channel stored in the same frame.
C18_Witness ==
    status = "Normal" /\ ch = NumChannels /\ n = 12 /\ mode = 3
    /\ sample # 0 /\ sample = Read(prevsample, iterdelay - 2)

\* C19: the write cursor is at most 399998 at every write, and slot 399999
\* keeps its initial 0.0.
C19_TopSlot ==
    /\ Read(prevsample, Cap - 1) = 0
    /\ status = "Normal" => iterdelay < WrapAt

\* C19 witness: slot 399998 was written and the write cursor reset.
C19_Witness ==
    status = "Normal" /\ iterdelay = 0 /\ Read(prevsample, WrapAt - 1) # 0

\* C20: the cursors after a step are determined by the cursors and prev
\* before it and by the step's mode or time value alone, so two runs with
\* the same modes and times have the same cursors whatever their inputs,
\* gains and delays.
C20_CursorsIgnoreAudio ==
    [][/\ SampleDone =>
            /\ iterdelay' = Wrap(iterdelay + 1)
            /\ iterrepeats' =
                  Wrap(iterrepeats + 1 + Shift(mode', iterdelay + 1))
       /\ FrameDone =>
            /\ iterdelay' = iterdelay
            /\ iterrepeats' = IF prev' # prev
                              THEN ScaleF32(iterrepeats, prev')
                              ELSE iterrepeats]_vars

\* C20 witness: a mode 6 sample at gain 2 with nonzero input and tap left
\* the cursors at 12 and 8.
C20_Witness ==
    status = "Normal" /\ ch > 0 /\ mode = 6 /\ n = 12 /\ gain = 2
    /\ sample = 4 /\ iterdelay = 12 /\ iterrepeats = 8

====
